---------------------------- MODULE Spec2Model ----------------------------
(***************************************************************************)
(* Model of the SIP instrument log readers of                              *)
(* python/pygimli/physics/SIP/importData.py: load, readTXTSpectrum,        *)
(* readFuchs3File, readRadicSIPFuchs, toTime and readSIP256file.           *)
(*                                                                         *)
(* A Python str is a sequence of one-character strings, a line keeps its   *)
(* terminator, and a file is a sequence of lines.  A Python float is a     *)
(* record [cls, m, e, rad] denoting m * 10^(-e) * (pi/180)^rad, so that a  *)
(* sign change and a degree-to-radian conversion are both visible in the   *)
(* value.  The numeric texts of the inputs use digits, a sign, one '.',    *)
(* 'nan' and 'inf' only (no exponents, no underscores).                    *)
(***************************************************************************)
EXTENDS Integers, Sequences, FiniteSets, TLC

VARIABLES
    entry,        \* the function the caller invoked
    pc,           \* position of the call
    fileName,     \* argument fileName / filename / resfile
    kwargs,       \* keyword arguments of load
    content,      \* the lines of the file (read so far, for a streaming reader)
    result,       \* what the call returned or raised
    activeBlock,  \* readFuchs3File / readSIP256file local
    header,       \* readFuchs3File / readSIP256file local
    LINE,         \* readFuchs3File / readSIP256file local
    dataAct,      \* readFuchs3File / readSIP256file local
    DATA,         \* readSIP256file local
    dReading,     \* readSIP256file local
    dFreq,        \* readSIP256file local
    AB,           \* readSIP256file local
    RU,           \* readSIP256file local
    ru,           \* readSIP256file local
    rdno,         \* readSIP256file local (Unbound before its first assignment)
    accepted,     \* history: the rows appended to dFreq, in order
    readings,     \* history: the reading numbers of the Reading lines seen
    earlier       \* history: the call the caller made before this one

vars == <<entry, pc, fileName, kwargs, content, result, activeBlock, header,
          LINE, dataAct, DATA, dReading, dFreq, AB, RU, ru, rdno, accepted,
          readings, earlier>>

---------------------------------------------------------------------------
(* Python str operations *)

DigitChars == <<"0", "1", "2", "3", "4", "5", "6", "7", "8", "9">>

IsDigit(c) == \E i \in 1..Len(DigitChars) : DigitChars[i] = c

DigitVal(c) == (CHOOSE i \in 1..Len(DigitChars) : DigitChars[i] = c) - 1

IsSpace(c) == c \in {" ", "\t", "\n", "\r"}

Drop(s, n) == SubSeq(s, n + 1, Len(s))

Take(s, n) == SubSeq(s, 1, n)

StartsWith(s, p) == Len(p) <= Len(s) /\ Take(s, Len(p)) = p

EndsWith(s, p) == Len(p) <= Len(s) /\ Drop(s, Len(s) - Len(p)) = p

\* the 0-based indices at which p occurs in s
Hits(s, p) == {i \in 0..(Len(s) - Len(p)) : SubSeq(s, i + 1, i + Len(p)) = p}

MinOr(S, none) == IF S = {} THEN none ELSE CHOOSE i \in S : \A j \in S : i <= j

MaxOr(S, none) == IF S = {} THEN none ELSE CHOOSE i \in S : \A j \in S : i >= j

\* s.find(p): the lowest 0-based index of p in s, or -1
Find(s, p) == MinOr(Hits(s, p), 0 - 1)

\* s.rfind(p): the highest 0-based index of p in s, or -1
RFind(s, p) == MaxOr(Hits(s, p), 0 - 1)

\* p in s
Contains(s, p) == Find(s, p) >= 0

\* a slice index as Python clips it to 0..n
Clip(a, n) == IF a < 0 THEN (IF a + n < 0 THEN 0 ELSE a + n)
                       ELSE (IF a > n THEN n ELSE a)

\* s[a:b] with Python's treatment of negative and out-of-range indices
PySlice(s, a, b) == SubSeq(s, Clip(a, Len(s)) + 1, Clip(b, Len(s)))

\* s[a:]
PyFrom(s, a) == PySlice(s, a, Len(s))

\* s.replace(old, new), old not empty: leftmost non-overlapping occurrences
RECURSIVE Replace(_, _, _)
Replace(s, old, new) ==
    IF s = <<>> THEN <<>>
    ELSE IF StartsWith(s, old)
         THEN new \o Replace(Drop(s, Len(old)), old, new)
         ELSE <<Head(s)>> \o Replace(Tail(s), old, new)

RECURSIVE SplitAcc(_, _)
SplitAcc(s, cur) ==
    IF s = <<>> THEN (IF cur = <<>> THEN <<>> ELSE <<cur>>)
    ELSE IF IsSpace(Head(s))
         THEN (IF cur = <<>> THEN <<>> ELSE <<cur>>) \o SplitAcc(Tail(s), <<>>)
         ELSE SplitAcc(Tail(s), Append(cur, Head(s)))

\* s.split(): the maximal runs of non-whitespace characters
Split(s) == SplitAcc(s, <<>>)

RECURSIVE SplitOnAcc(_, _, _)
SplitOnAcc(s, ch, cur) ==
    IF s = <<>> THEN <<cur>>
    ELSE IF Head(s) = ch
         THEN <<cur>> \o SplitOnAcc(Tail(s), ch, <<>>)
         ELSE SplitOnAcc(Tail(s), ch, Append(cur, Head(s)))

\* s.split(ch): empty fields are kept, '' gives ['']
SplitOn(s, ch) == SplitOnAcc(s, ch, <<>>)

RECURSIVE LStrip(_)
LStrip(s) == IF s # <<>> /\ IsSpace(Head(s)) THEN LStrip(Tail(s)) ELSE s

RECURSIVE RStrip(_)
RStrip(s) ==
    IF s # <<>> /\ IsSpace(s[Len(s)]) THEN RStrip(Take(s, Len(s) - 1)) ELSE s

\* s.strip()
Strip(s) == RStrip(LStrip(s))

\* s.rstrip('\r\n')
RECURSIVE RStripCRLF(_)
RStripCRLF(s) ==
    IF s # <<>> /\ s[Len(s)] \in {"\r", "\n"}
    THEN RStripCRLF(Take(s, Len(s) - 1)) ELSE s

UpperChars == <<"A", "B", "C", "S", "T", "V", "X">>

LowerChars == <<"a", "b", "c", "s", "t", "v", "x">>

LowerChar(c) ==
    IF \E i \in 1..Len(UpperChars) : UpperChars[i] = c
    THEN LowerChars[CHOOSE i \in 1..Len(UpperChars) : UpperChars[i] = c]
    ELSE c

\* seq[n], n counted from 0 as in the source
Field(seq, n) == seq[n + 1]

\* s.lower(), for the letters the file names of the model use
Lower(s) == [i \in 1..Len(s) |-> LowerChar(s[i])]

---------------------------------------------------------------------------
(* Python numbers *)

\* the float m * 10^(-e), trailing zeros removed so that equal values are equal
RECURSIVE Fin(_, _)
Fin(m, e) == IF e > 0 /\ m % 10 = 0 THEN Fin(m \div 10, e - 1)
             ELSE [cls |-> "fin", m |-> m, e |-> e, rad |-> 0]

NaN == [cls |-> "nan", m |-> 0, e |-> 0, rad |-> 0]

Inf(sign) == [cls |-> "inf", m |-> sign, e |-> 0, rad |-> 0]

\* a Python int
PyInt(n) == [cls |-> "int", m |-> n, e |-> 0, rad |-> 0]

\* -x
Neg(x) == [x EXCEPT !.m = 0 - x.m]

\* x * pi/180 ; zero, nan and inf are unchanged by the factor
TimesPiOver180(x) ==
    IF x.cls = "fin" /\ x.m # 0 THEN [x EXCEPT !.rad = x.rad + 1] ELSE x

\* np.isfinite(x)
IsFinite(x) == x.cls \in {"fin", "int"}

RECURSIVE DigitsVal(_)
DigitsVal(s) ==
    IF s = <<>> THEN 0
    ELSE DigitsVal(Take(s, Len(s) - 1)) * 10 + DigitVal(s[Len(s)])

AllDigits(s) == \A i \in 1..Len(s) : IsDigit(s[i])

Failed == [ok |-> FALSE, val |-> NaN]

Parsed(v) == [ok |-> TRUE, val |-> v]

\* the text after an optional sign, and the sign
Unsigned(s) == IF s # <<>> /\ Head(s) \in {"+", "-"} THEN Tail(s) ELSE s

SignOf(s) == IF s # <<>> /\ Head(s) = "-" THEN 0 - 1 ELSE 1

\* digits, a '.', digits: ip and fp are the texts before and after the '.'
FloatOfParts(sign, ip, fp) ==
    IF AllDigits(ip) /\ AllDigits(fp) /\ Len(ip) + Len(fp) > 0
    THEN Parsed(Fin(sign * DigitsVal(ip \o fp), Len(fp)))
    ELSE Failed

FloatOfBody(sign, body, dot) ==
    IF body = <<"n", "a", "n">> THEN Parsed(NaN)
    ELSE IF body = <<"i", "n", "f">> THEN Parsed(Inf(sign))
    ELSE IF dot < 0 THEN FloatOfParts(sign, body, <<>>)
    ELSE FloatOfParts(sign, Take(body, dot), Drop(body, dot + 1))

FloatOfStripped(s) ==
    FloatOfBody(SignOf(s), Unsigned(s), Find(Unsigned(s), <<".">>))

\* float(text): [ok, val], ok = FALSE for a ValueError
ParseFloat(text) == FloatOfStripped(Strip(text))

IntOfBody(sign, body) ==
    IF body # <<>> /\ AllDigits(body) THEN Parsed(PyInt(sign * DigitsVal(body)))
    ELSE Failed

IntOfStripped(s) == IntOfBody(SignOf(s), Unsigned(s))

\* int(text): [ok, val], ok = FALSE for a ValueError
ParseInt(text) == IntOfStripped(Strip(text))

\* [f(x) for x in texts] for f = float or int: RECURSIVE so that each text is
\* parsed once
RECURSIVE ParseFloats(_)
ParseFloats(texts) ==
    IF texts = <<>> THEN <<>>
    ELSE <<ParseFloat(Head(texts))>> \o ParseFloats(Tail(texts))

RECURSIVE ParseInts(_)
ParseInts(texts) ==
    IF texts = <<>> THEN <<>>
    ELSE <<ParseInt(Head(texts))>> \o ParseInts(Tail(texts))

AllOk(ps) == \A i \in 1..Len(ps) : ps[i].ok

Vals(ps) == [i \in 1..Len(ps) |-> ps[i].val]

---------------------------------------------------------------------------
(* Results of a call *)

EmptyDict == [x \in {} |-> NaN]

\* dict[key] = value
Put(d, key, value) ==
    [x \in (DOMAIN d) \cup {key} |-> IF x = key THEN value ELSE d[x]]

NoResult ==
    [kind |-> "none", exc |-> "", f |-> <<>>, amp |-> <<>>, phi |-> <<>>,
     header |-> EmptyDict, branch |-> "", called |-> ""]

Raise(e) == [NoResult EXCEPT !.kind = "raise", !.exc = e]

\* a function body that ends without a return statement
ReturnNone == [NoResult EXCEPT !.kind = "returnNone"]

Return(f, amp, phi, hdr) ==
    [NoResult EXCEPT !.kind = "return", !.f = f, !.amp = amp, !.phi = phi,
                     !.header = hdr]

---------------------------------------------------------------------------
(* readTXTSpectrum *)

RECURSIVE TxtLoop(_, _, _, _, _)

\* line 88: line.replace(';', ' ').split()
TxtFields(line) == Split(Replace(line, <<";">>, <<" ">>))

\* a loop that passes over a line with at most 3 fields and reads on
TxtSkipShortLine(lines, i, f, amp, phi) == TxtLoop(lines, i + 1, f, amp, phi)

\* lines 92-93: a line with at most 3 fields leaves the loop (break)
TxtShortLine(lines, i, f, amp, phi) == Return(f, amp, phi, EmptyDict)

\* rows put in front of the arrays, which reverses the order of the file
TxtPrepend(lines, i, f, amp, phi, x) ==
    IF ~AllOk(x) THEN Raise("ValueError")
    ELSE TxtLoop(lines, i + 1, <<x[1].val>> \o f, <<x[2].val>> \o amp,
                 <<Neg(x[3].val)>> \o phi)

\* lines 89-91: x are the parsed fields 0, 1 and 3
TxtAppend(lines, i, f, amp, phi, x) ==
    IF ~AllOk(x) THEN Raise("ValueError")
    ELSE TxtLoop(lines, i + 1, Append(f, x[1].val), Append(amp, x[2].val),
                 Append(phi, Neg(x[3].val)))

\* lines 88-93
TxtLine(lines, i, f, amp, phi, snums) ==
    IF Len(snums) > 3
    THEN TxtAppend(lines, i, f, amp, phi,
           ParseFloats(<<Field(snums, 0), Field(snums, 1), Field(snums, 3)>>))
    ELSE TxtShortLine(lines, i, f, amp, phi)

\* lines 86-95: the loop over lines[1:], at the line with 1-based index i
TxtLoop(lines, i, f, amp, phi) ==
    IF i > Len(lines) THEN Return(f, amp, phi, EmptyDict)
    ELSE TxtLine(lines, i, f, amp, phi, TxtFields(lines[i]))

\* lines 80-95
readTXTSpectrum(lines) == TxtLoop(lines, 2, <<>>, <<>>, <<>>)

---------------------------------------------------------------------------
(* readRadicSIPFuchs *)

\* line 203 with the name of the parameter, filename, in place of resfile
ResfileIsFilename == TRUE

\* line 203 reads the name resfile; the parameter is filename and the module
\* binds no global resfile, so the lookup raises NameError
ResfileBound == FALSE

\* lines 211-219: read lines until one contains 'Freq'; the result is the
\* 1-based index of the line after it, 0 when the scan never ends (readline
\* returns '' for ever at the end of the file)
RECURSIVE ScanFreq(_, _)
ScanFreq(lines, i) ==
    IF i > Len(lines) THEN 0
    ELSE IF RFind(lines[i], <<"F", "r", "e", "q">>) > -1 THEN i + 1
    ELSE ScanFreq(lines, i + 1)

NoRadicRows ==
    [fr |-> <<>>, rhoa |-> <<>>, phi |-> <<>>, drhoa |-> <<>>, dphi |-> <<>>,
     exc |-> ""]

RECURSIVE RadicRows(_, _, _)

\* line 229: -float(b[2]) * np.pi / 180.
RadicPhase(x) == TimesPiOver180(Neg(x))

\* lines 227-231: x are the parsed fields 0..4
RadicAppend(lines, i, acc, x) ==
    IF ~AllOk(x) THEN [acc EXCEPT !.exc = "ValueError"]
    ELSE RadicRows(lines, i + 1,
           [acc EXCEPT !.fr    = Append(@, x[1].val),
                       !.rhoa  = Append(@, x[2].val),
                       !.phi   = Append(@, RadicPhase(x[3].val)),
                       !.drhoa = Append(@, x[4].val),
                       !.dphi  = Append(@, TimesPiOver180(x[5].val))])

\* lines 223-231: b is line.split('\t')
RadicLine(lines, i, acc, b) ==
    IF Len(b) < 5 THEN acc
    ELSE RadicAppend(lines, i, acc, ParseFloats(Take(b, 5)))

\* lines 221-231: the rows from the line with 1-based index i on; readline
\* returns '' at the end of the file
RadicRows(lines, i, acc) ==
    RadicLine(lines, i, acc,
              SplitOn(IF i > Len(lines) THEN <<>> ELSE lines[i], "\t"))

\* lines 233-242; the returned drhoa and dphi are not kept in the result
RadicReturn(rows, delLast) ==
    IF rows.exc # "" THEN Raise(rows.exc)
    ELSE IF delLast
         THEN IF rows.fr = <<>> THEN Raise("IndexError")
              ELSE Return(Tail(rows.fr), Tail(rows.rhoa), Tail(rows.phi),
                          EmptyDict)
         ELSE Return(rows.fr, rows.rhoa, rows.phi, EmptyDict)

\* lines 216-231: start is the index after the first 'Freq' line
RECURSIVE RadicSecond(_, _, _, _)
RadicSecond(lines, readSecond, delLast, start) ==
    IF start = 0 THEN [NoResult EXCEPT !.kind = "hang"]
    ELSE IF readSecond THEN RadicSecond(lines, FALSE, delLast,
                                        ScanFreq(lines, start))
    ELSE RadicReturn(RadicRows(lines, start, NoRadicRows), delLast)

\* lines 203-242
readRadicSIPFuchs(lines, readSecond, delLast) ==
    IF ~ResfileBound THEN Raise("NameError")
    ELSE RadicSecond(lines, readSecond, delLast, ScanFreq(lines, 2))

---------------------------------------------------------------------------
(* readFuchs3File *)

\* a header value: a number, a list of rows, or a finished array
HNum(x) == [t |-> "num", num |-> x, rows |-> <<>>]

HList(rows) == [t |-> "list", num |-> NaN, rows |-> rows]

\* np.array(v)
HArray(v) == [v EXCEPT !.t = "array"]

\* line[1:line.rfind(']')].replace(' ', '_')
BracketToken(line) ==
    Replace(PySlice(line, 1, RFind(line, <<"]">>)), <<" ">>, <<"_">>)

\* line[line.rfind(']') + 1:]
BracketValue(line) == PyFrom(line, RFind(line, <<"]">>) + 1)

\* lines 143-144 (and 310-311): an End marker
HeaderEnd(st) ==
    IF st.activeBlock \notin DOMAIN st.header
    THEN [st EXCEPT !.ret = Raise("KeyError")]
    ELSE [st EXCEPT
            !.header = Put(st.header, st.activeBlock,
                           HArray(st.header[st.activeBlock])),
            !.activeBlock = <<>>]

\* lines 146-147 (and 313-314) with the rows of an earlier block of the same
\* name kept
HeaderBeginMerge(st, token) ==
    [st EXCEPT !.activeBlock = PyFrom(token, 6),
               !.header =
                 Put(st.header, PyFrom(token, 6),
                     IF PyFrom(token, 6) \in DOMAIN st.header
                     THEN HList(st.header[PyFrom(token, 6)].rows)
                     ELSE HList(<<>>))]

\* lines 146-147 (and 313-314): a Begin marker
HeaderBegin(st, token) ==
    [st EXCEPT !.activeBlock = PyFrom(token, 6),
               !.header = Put(st.header, PyFrom(token, 6), HList(<<>>))]

\* lines 163-164 (and 332-333): nums are the parsed fields of the line
HeaderAppend(st, nums) ==
    IF ~AllOk(nums) THEN [st EXCEPT !.ret = Raise("ValueError")]
    ELSE IF st.header[st.activeBlock].t # "list"
         THEN [st EXCEPT !.ret = Raise("AttributeError")]
    ELSE [st EXCEPT !.header =
            Put(st.header, st.activeBlock,
                HList(Append(st.header[st.activeBlock].rows, Vals(nums))))]

\* lines 162-164 (and 331-333): a line that does not start with '['
HeaderRow(st, line) ==
    IF st.activeBlock = <<>> THEN st
    ELSE HeaderAppend(st, ParseFloats(Split(line)))

\* lines 155-159: num is the parsed value; a ValueError is passed over
F3Store(st, token, num) ==
    IF num.ok THEN [st EXCEPT !.header = Put(st.header, token, HNum(num.val))]
    ELSE st

\* lines 149-159: a bracketed entry that is neither End nor Begin
F3Scalar(st, token, value) ==
    F3Store(st, token, IF Contains(value, <<".">>) THEN ParseFloat(value)
                                                   ELSE ParseInt(value))

\* lines 142-159
F3Bracket(st, token, line) ==
    IF PySlice(token, 0, 3) = <<"E", "n", "d">> THEN HeaderEnd(st)
    ELSE IF PySlice(token, 0, 5) = <<"B", "e", "g", "i", "n">>
         THEN HeaderBegin(st, token)
    ELSE F3Scalar(st, token, BracketValue(line))

\* lines 140-164: one line of the header
F3Header(st, line) ==
    IF Field(line, 0) = "[" THEN F3Bracket(st, BracketToken(line), line)
    ELSE HeaderRow(st, line)

\* np.array(amp)/np.array(kIn) * k, one element, kept as the expression
ScaleAmp(a, kIn, k) ==
    [cls |-> "expr", amp |-> a, kIn |-> kIn, k |-> k]

NoRows == [f |-> <<>>, amp |-> <<>>, phi |-> <<>>, kIn |-> <<>>, exc |-> ""]

RECURSIVE F3Table(_, _, _)

\* lines 125-126: x are the parsed fields 13 and 9
F3PhaseK(buf, i, acc, fi, a, x) ==
    IF ~AllOk(x) THEN [acc EXCEPT !.exc = "ValueError"]
    ELSE F3Table(buf, i + 1,
           [acc EXCEPT !.f   = Append(@, fi),
                       !.amp = Append(@, a),
                       !.phi = Append(@, x[1].val),
                       !.kIn = Append(@, x[2].val)])

\* lines 124-126: a is the parsed field 12
F3Amp(buf, i, acc, sline, fi, a) ==
    IF ~a.ok THEN [acc EXCEPT !.exc = "ValueError"]
    ELSE IF Len(sline) < 14 THEN [acc EXCEPT !.exc = "IndexError"]
    ELSE F3PhaseK(buf, i, acc, fi, a.val,
                  ParseFloats(<<Field(sline, 13), Field(sline, 9)>>))

\* lines 121-126: fi is the parsed field 11
F3Freq(buf, i, acc, sline, fi) ==
    IF ~fi.ok THEN [acc EXCEPT !.exc = "ValueError"]
    ELSE IF IsFinite(fi.val)
         THEN F3Amp(buf, i, acc, sline, fi.val, ParseFloat(Field(sline, 12)))
    ELSE F3Table(buf, i + 1, acc)

\* lines 119-126
F3Row(buf, i, acc, sline) ==
    IF Len(sline) > 12 THEN F3Freq(buf, i, acc, sline, ParseFloat(Field(sline, 11)))
    ELSE F3Table(buf, i + 1, acc)

\* lines 118-126: the rows of the buffered lines from the i-th on
F3Table(buf, i, acc) ==
    IF i > Len(buf) THEN acc ELSE F3Row(buf, i, acc, Split(buf[i]))

\* lines 128-132
F3Return(rows, hdr, k) ==
    IF rows.exc # "" THEN Raise(rows.exc)
    ELSE Return(rows.f,
                [i \in 1..Len(rows.amp) |-> ScaleAmp(rows.amp[i], rows.kIn[i], k)],
                rows.phi, hdr)

\* lines 116-132: the end of the data section
F3Finish(st, k) == F3Return(F3Table(st.LINE, 1, NoRows), st.header, k)

\* the locals of readFuchs3File after lines 107-110
F3Start ==
    [activeBlock |-> <<>>, header |-> EmptyDict, LINE |-> <<>>,
     dataAct |-> FALSE, ret |-> NoResult]

\* lines 115-132: a line of the data section
F3Data(st, line, k) ==
    IF Len(line) < 2 THEN [st EXCEPT !.ret = F3Finish(st, k)] ELSE st

\* lines 114-164, line with '\r\n' already replaced
F3Line(st, line, k) ==
    IF st.dataAct THEN F3Data([st EXCEPT !.LINE = Append(@, line)], line, k)
    ELSE IF Len(line) > 0
    THEN F3Header([st EXCEPT !.dataAct =
                     RFind(line, <<"C", "u", "r", "r", "e", "n", "t">>) >= 0],
                  line)
    ELSE st

\* lines 112-164: the body of the loop for one line of the file
F3Step(st, rawline, k) ==
    F3Line(st, Replace(rawline, <<"\r", "\n">>, <<"\n">>), k)

\* lines 111-164 on a whole file: the loop ends at a return, at an exception
\* or at the end of the file (then the function returns None)
RECURSIVE F3Run(_, _, _, _)
F3Run(st, lines, i, k) ==
    IF st.ret.kind # "none" THEN st.ret
    ELSE IF i > Len(lines) THEN ReturnNone
    ELSE F3Run(F3Step(st, lines[i], k), lines, i + 1, k)

\* lines 98-164
readFuchs3File(lines, k) == F3Run(F3Start, lines, 1, k)

---------------------------------------------------------------------------
(* load *)

SigFuchs3 == <<"S", "I", "P", " ", "F", "u", "c", "h", "s", " ", "I", "I", "I">>

SigQuad == <<"S", "I", "P", "-", "Q", "u", "a", "d">>

SigFuchs == <<"S", "I", "P", "-", "F", "u", "c", "h", "s">>

ExtTxt == <<".", "t", "x", "t">>

ExtCsv == <<".", "c", "s", "v">>

\* a chain that tests the extension first and the signatures after it
LoadBranchExtFirst(firstLine, fnLow) ==
    IF EndsWith(fnLow, ExtTxt) \/ EndsWith(fnLow, ExtCsv) THEN "txt"
    ELSE IF Contains(firstLine, SigFuchs3) THEN "SIP Fuchs III"
    ELSE IF Contains(firstLine, SigQuad) THEN "SIP-Quad"
    ELSE IF Contains(firstLine, SigFuchs) THEN "SIP-Fuchs"
    ELSE "else"

\* a chain whose last test takes any name that ends in txt or csv, with or
\* without the dot
LoadBranchNoDot(firstLine, fnLow) ==
    IF Contains(firstLine, SigFuchs3) THEN "SIP Fuchs III"
    ELSE IF Contains(firstLine, SigQuad) THEN "SIP-Quad"
    ELSE IF Contains(firstLine, SigFuchs) THEN "SIP-Fuchs"
    ELSE IF EndsWith(fnLow, Tail(ExtTxt)) \/ EndsWith(fnLow, Tail(ExtCsv))
    THEN "txt"
    ELSE "else"

\* lines 37-60: the branch of the if/elif chain that is taken
LoadBranch(firstLine, fnLow) ==
    IF Contains(firstLine, SigFuchs3) THEN "SIP Fuchs III"
    ELSE IF Contains(firstLine, SigQuad) THEN "SIP-Quad"
    ELSE IF Contains(firstLine, SigFuchs) THEN "SIP-Fuchs"
    ELSE IF EndsWith(fnLow, ExtTxt) \/ EndsWith(fnLow, ExtCsv) THEN "txt"
    ELSE "else"

\* the default of readFuchs3File's parameter k (line 98)
DefaultK == Fin(1, 0)

\* the keyword names load passes on: verbose=verbose and **kwargs
Passed(kw) == kw.names \cup {"verbose"}

\* phi *= -np.pi/180. on one element (lines 42, 49, 55)
TimesMinusPiOver180(x) == TimesPiOver180(Neg(x))

\* lines 40-42, 47-49, 53-55: f, amp, phi, ... = r; phi *= -np.pi/180.
LoadConvert(r, reader) ==
    IF r.kind = "returnNone"
    THEN [Raise("TypeError") EXCEPT !.called = reader]
    ELSE IF r.kind = "return"
    THEN [Return(r.f, r.amp,
                 [i \in 1..Len(r.phi) |-> TimesMinusPiOver180(r.phi[i])],
                 EmptyDict)
            EXCEPT !.called = reader]
    ELSE [r EXCEPT !.called = reader]

\* lines 40-42 and 47-49: the call readFuchs3File(fileName, verbose=verbose,
\* **kwargs) of a function with the parameters resfile, k, verbose
LoadFuchs3(lines, kw) ==
    IF ~(Passed(kw) \subseteq {"k", "verbose"}) THEN Raise("TypeError")
    ELSE LoadConvert(
           readFuchs3File(lines, IF "k" \in kw.names THEN kw.k ELSE DefaultK),
           "readFuchs3File")

\* lines 53-55: the call readRadicSIPFuchs(fileName, verbose=verbose,
\* **kwargs) of a function with the parameters filename, readSecond, delLast
LoadRadic(lines, kw) ==
    IF ~(Passed(kw) \subseteq {"readSecond", "delLast"}) THEN Raise("TypeError")
    ELSE LoadConvert(readRadicSIPFuchs(lines, kw.readSecond, kw.delLast),
                     "readRadicSIPFuchs")

\* line 57 reads the name filename; load's parameter is fileName and the
\* module binds no global filename, so the lookup raises NameError
FilenameBound == FALSE

\* lines 57-58
LoadTxt(lines) ==
    IF ~FilenameBound THEN Raise("NameError")
    ELSE [readTXTSpectrum(lines) EXCEPT !.called = "readTXTSpectrum"]

\* lines 37-62: the branch br of the chain
LoadDispatch(br, lines, kw) ==
    IF br \in {"SIP Fuchs III", "SIP-Quad"}
    THEN [LoadFuchs3(lines, kw) EXCEPT !.branch = br]
    ELSE IF br = "SIP-Fuchs" THEN [LoadRadic(lines, kw) EXCEPT !.branch = br]
    ELSE IF br = "txt" THEN [LoadTxt(lines) EXCEPT !.branch = br]
    ELSE [Raise("Exception") EXCEPT !.branch = br]

\* lines 28-62: readline gives '' for an empty file
load(name, lines, kw) ==
    LoadDispatch(LoadBranch(IF lines = <<>> THEN <<>> ELSE lines[1], Lower(name)),
                 lines, kw)

---------------------------------------------------------------------------
(* toTime *)

IsLeap(y) == (y % 4 = 0 /\ y % 100 # 0) \/ y % 400 = 0

DaysIn(y, mo) ==
    IF mo = 2 THEN (IF IsLeap(y) THEN 29 ELSE 28)
    ELSE IF mo \in {4, 6, 9, 11} THEN 30 ELSE 31

NoTime(e) == [exc |-> e, val |-> NaN]

\* lines 251-254: datetime(y, mo, d, hour=h, minute=mi, second=sec) and its
\* timestamp(), which stands for the local date and time and is kept as its
\* fields
DateTime(y, mo, d, h, mi, sec) ==
    IF /\ y \in 1..9999 /\ mo \in 1..12 /\ d >= 1 /\ d <= DaysIn(y, mo)
       /\ h \in 0..23 /\ mi \in 0..59 /\ sec \in 0..59
    THEN [exc |-> "",
          val |-> [cls |-> "time", y |-> y, mo |-> mo, d |-> d, h |-> h,
                   mi |-> mi, s |-> sec]]
    ELSE NoTime("ValueError")

\* lines 249-254: tim and day are the parsed parts of t and d
TimeOfParts(tim, day) ==
    IF ~AllOk(tim) \/ ~AllOk(day) THEN NoTime("ValueError")
    ELSE IF Len(day) < 3 \/ Len(tim) < 3 THEN NoTime("IndexError")
    ELSE DateTime(day[3].val.m, day[2].val.m, day[1].val.m,
                  tim[1].val.m, tim[2].val.m, tim[3].val.m)

\* lines 245-254: [exc, val]
toTime(t, d) == TimeOfParts(ParseInts(SplitOn(t, ":")), ParseInts(SplitOn(d, "/")))

---------------------------------------------------------------------------
(* readSIP256file: the header loop, lines 289-333 *)

TokFPBegin ==
    <<"F", "r", "e", "q", "u", "e", "n", "c", "y", "P", "a", "r", "a", "m",
      "e", "t", "e", "r", "B", "e", "g", "i", "n">>

TokBeginFP ==
    <<"B", "e", "g", "i", "n", "_", "F", "r", "e", "q", "u", "e", "n", "c",
      "y", "P", "a", "r", "a", "m", "e", "t", "e", "r">>

TokFPEnd ==
    <<"F", "r", "e", "q", "u", "e", "n", "c", "y", "P", "a", "r", "a", "m",
      "e", "t", "e", "r", "E", "n", "d">>

TokEndFP ==
    <<"E", "n", "d", "_", "F", "r", "e", "q", "u", "e", "n", "c", "y", "P",
      "a", "r", "a", "m", "e", "t", "e", "r">>

TokMessdatenSIP256 ==
    <<"M", "e", "s", "s", "d", "a", "t", "e", "n", "_", "S", "I", "P", "2",
      "5", "6">>

TokMessdaten == <<"M", "e", "s", "s", "d", "a", "t", "e", "n">>

\* lines 294-301: the token, with the early 256D spellings rewritten
SipToken(line) ==
    Replace(Replace(BracketToken(line), TokFPBegin, TokBeginFP),
            TokFPEnd, TokEndFP)

\* an int(value) whose failure leaves the header as it is
SipStoreIntOrSkip(st, token, num) ==
    IF num.ok THEN [st EXCEPT !.header = Put(st.header, token, HNum(num.val))]
    ELSE st

\* lines 321-326: num is int(value); a failure gives 0
SipStoreInt(st, token, num) ==
    IF num.ok THEN [st EXCEPT !.header = Put(st.header, token, HNum(num.val))]
    ELSE [st EXCEPT !.header = Put(st.header, token, HNum(PyInt(0)))]

\* lines 318-319 and 326-329: num is float(value); a ValueError is printed
\* and passed over
SipStoreFloat(st, token, num) ==
    IF num.ok THEN [st EXCEPT !.header = Put(st.header, token, HNum(num.val))]
    ELSE st

\* lines 316-329: a bracketed entry that is neither Messdaten, End nor Begin
SipScalar(st, token, value) ==
    IF Contains(value, <<".">>) THEN SipStoreFloat(st, token, ParseFloat(value))
    ELSE SipStoreInt(st, token, ParseInt(value))

\* lines 303-329
SipBracket(st, token, line) ==
    IF Replace(token, <<" ">>, <<"_">>) = TokMessdatenSIP256
    THEN [st EXCEPT !.dataAct = TRUE]
    ELSE IF Contains(token, TokMessdaten) THEN [st EXCEPT !.dataAct = TRUE]
    ELSE IF PySlice(token, 0, 3) = <<"E", "n", "d">> THEN HeaderEnd(st)
    ELSE IF PySlice(token, 0, 5) = <<"B", "e", "g", "i", "n">>
         THEN HeaderBegin(st, token)
    ELSE SipScalar(st, token, BracketValue(line))

\* lines 290-333: the body of the header loop for one line of the file
SipHeaderStep(st, line) ==
    IF st.dataAct THEN [st EXCEPT !.LINE = Append(@, line)]
    ELSE IF Len(line) > 0
    THEN IF Field(line, 0) = "[" THEN SipBracket(st, SipToken(line), line)
         ELSE HeaderRow(st, line)
    ELSE st

---------------------------------------------------------------------------
(* readSIP256file: the data loop, lines 335-384 *)

\* re.search('[0-9]-', line)
HasDigitMinus(line) ==
    \E i \in 1..(Len(line) - 1) : IsDigit(line[i]) /\ line[i + 1] = "-"

\* re.sub('[0-9]-', '5 -', line)
RECURSIVE SubDigitMinus(_)
SubDigitMinus(line) ==
    IF Len(line) < 2 THEN line
    ELSE IF IsDigit(line[1]) /\ line[2] = "-"
         THEN <<"5", " ", "-">> \o SubDigitMinus(Drop(line, 2))
         ELSE <<Head(line)>> \o SubDigitMinus(Tail(line))

\* lines 367-373: field c, longer than 15 characters, becomes two fields, the
\* second one the last keep characters
SplitAt(sline, c, keep) ==
    Take(sline, c) \o <<PySlice(Field(sline, c), 0, 0 - keep)>>
      \o <<PyFrom(Field(sline, c), 0 - keep)>> \o Drop(sline, c + 1)

\* lines 366-373 with a limit of 10 characters for the fields after the first
SplitLongByPosition(sline, c) ==
    IF Len(Field(sline, c)) > (IF c = 0 THEN 15 ELSE 10)
    THEN SplitAt(sline, c, IF c = 0 THEN 15 ELSE 10)
    ELSE sline

\* lines 366-373
SplitLong(sline, c) ==
    IF Len(Field(sline, c)) > 15
    THEN SplitAt(sline, c, IF c = 0 THEN 15 ELSE 10)
    ELSE sline

\* lines 375-376
MarkCal(sline, c) ==
    IF Find(Field(sline, c), <<"c">>) >= 0
    THEN [sline EXCEPT ![c + 1] = <<"1", ".", "0">>]
    ELSE sline

\* lines 365-376: the loop over c = 0..5, from c on
RECURSIVE RepairFields(_, _)
RepairFields(sline, c) ==
    IF c > 5 THEN [exc |-> "", sline |-> sline]
    ELSE IF c >= Len(sline) THEN [exc |-> "IndexError", sline |-> sline]
    ELSE RepairFields(MarkCal(SplitLong(sline, c), c), c + 1)

NoRow(e) == [exc |-> e, row |-> <<>>]

\* line 379: np.array(sline[:8] + [tm], dtype=float)
RowArray(nums, tm) ==
    IF tm.exc # "" THEN NoRow(tm.exc)
    ELSE IF ~AllOk(nums) THEN NoRow("ValueError")
    ELSE [exc |-> "", row |-> Vals(nums) \o <<tm.val>>]

\* lines 365-379 with the field at index 8 taken into the row as well
RowOfRepairedWithEight(rep) ==
    IF rep.exc # "" THEN NoRow(rep.exc)
    ELSE IF Len(rep.sline) < 11 THEN NoRow("IndexError")
    ELSE RowArray(ParseFloats(Take(rep.sline, 9)),
                  toTime(Field(rep.sline, 9), Field(rep.sline, 10)))

\* lines 365-379: rep is the outcome of the repair loop
RowOfRepaired(rep) ==
    IF rep.exc # "" THEN NoRow(rep.exc)
    ELSE IF Len(rep.sline) < 11 THEN NoRow("IndexError")
    ELSE RowArray(ParseFloats(Take(rep.sline, 8)),
                  toTime(Field(rep.sline, 9), Field(rep.sline, 10)))

\* lines 362-379: a data row; [exc, row]
SipRow(line, sline) ==
    RowOfRepaired(RepairFields(IF HasDigitMinus(line)
                               THEN Split(SubDigitMinus(line)) ELSE sline, 0))

Unbound == [bound |-> FALSE, val |-> 0]

Bound(n) == [bound |-> TRUE, val |-> n]

\* the locals of the data loop after lines 335-336
SipStart ==
    [DATA |-> <<>>, dReading |-> <<>>, dFreq |-> <<>>, AB |-> <<>>,
     RU |-> <<>>, ru |-> <<>>, rdno |-> Unbound, exc |-> ""]

\* lines 346-348: a pending remote-unit list goes to RU
SipFlushRU(d) ==
    IF d.ru # <<>> THEN [d EXCEPT !.RU = Append(@, d.ru), !.ru = <<>>] ELSE d

\* lines 349-353: a finished reading goes to DATA
SipFlushReading(d) ==
    IF d.rdno.val > 1 /\ d.dReading # <<>>
    THEN [d EXCEPT !.DATA = Append(@, Append(d.dReading, d.dFreq)),
                   !.dReading = <<>>, !.dFreq = <<>>]
    ELSE d

\* lines 344-345: a and b are int(sline[4]) and int(sline[6])
SipElectrodes(d, sline, a, b) ==
    IF ~a.ok THEN [d EXCEPT !.exc = "ValueError"]
    ELSE IF Len(sline) < 7 THEN [d EXCEPT !.exc = "IndexError"]
    ELSE IF ~b.ok THEN [d EXCEPT !.exc = "ValueError"]
    ELSE [d EXCEPT !.AB = Append(@, <<a.val.m, b.val.m>>)]

\* an electrode pair for the readings after the first one only
SipABAfterFirst(d, sline) ==
    IF d.rdno.val > 1
    THEN IF Len(sline) < 5 THEN [d EXCEPT !.exc = "IndexError"]
         ELSE SipElectrodes(d, sline, ParseInt(Field(sline, 4)),
                            ParseInt(IF Len(sline) < 7 THEN <<>>
                                     ELSE Field(sline, 6)))
    ELSE d

\* lines 344-345
SipAB(d, sline) ==
    IF d.rdno.val > 0
    THEN IF Len(sline) < 5 THEN [d EXCEPT !.exc = "IndexError"]
         ELSE SipElectrodes(d, sline, ParseInt(Field(sline, 4)),
                            ParseInt(IF Len(sline) < 7 THEN <<>>
                                     ELSE Field(sline, 6)))
    ELSE d

\* lines 346-353, skipped when line 345 raised
SipFlush(d) == IF d.exc # "" THEN d ELSE SipFlushReading(SipFlushRU(d))

\* lines 343-353: n is int(sline[1])
SipReadingNo(d, sline, n) ==
    IF ~n.ok THEN [d EXCEPT !.exc = "ValueError"]
    ELSE SipFlush(SipAB([d EXCEPT !.rdno = Bound(n.val.m)], sline))

\* lines 343-353: a line that starts with 'Reading'
SipReading(d, sline) ==
    IF Len(sline) < 2 THEN [d EXCEPT !.exc = "IndexError"]
    ELSE SipReadingNo(d, sline, ParseInt(Field(sline, 1)))

\* lines 356-358 without the flush: the rows stay in dFreq
SipKeepFreq(d) == d

\* lines 356-358
SipFlushFreq(d) ==
    IF d.dFreq # <<>>
    THEN [d EXCEPT !.dReading = Append(@, d.dFreq), !.dFreq = <<>>]
    ELSE d

\* lines 355-358: n is int(sline[2])
SipUnitNo(d, n) ==
    IF ~n.ok THEN [d EXCEPT !.exc = "ValueError"]
    ELSE SipFlushFreq([d EXCEPT !.ru = Append(@, n.val.m)])

\* lines 355-358: a line that starts with 'Remote Unit'
SipRemoteUnit(d, sline) ==
    IF Len(sline) < 3 THEN [d EXCEPT !.exc = "IndexError"]
    ELSE SipUnitNo(d, ParseInt(Field(sline, 2)))

\* line 379: r is the row or the exception of its parse
SipAppendRow(d, r) ==
    IF r.exc # "" THEN [d EXCEPT !.exc = r.exc]
    ELSE [d EXCEPT !.dFreq = Append(@, r.row)]

\* lines 361-379: any other line
SipOther(d, line, sline) ==
    IF Len(sline) > 1
    THEN IF ~d.rdno.bound THEN [d EXCEPT !.exc = "UnboundLocalError"]
         ELSE IF d.rdno.val > 0 THEN SipAppendRow(d, SipRow(line, sline))
         ELSE d
    ELSE d

\* lines 342-379: line has its calibration flags replaced, sline is
\* line.rstrip('\r\n').split()
SipClassify(d, line, sline) ==
    IF Find(line, <<"R", "e", "a", "d", "i", "n", "g">>) = 0
    THEN SipReading(d, sline)
    ELSE IF Find(line, <<"R", "e", "m", "o", "t", "e", " ", "U", "n", "i", "t">>) = 0
    THEN SipRemoteUnit(d, sline)
    ELSE IF Find(line, <<"F", "r", "e", "q">>) >= 0 THEN d
    ELSE SipOther(d, line, sline)

\* lines 340-379
SipSplit(d, line) == SipClassify(d, line, Split(RStripCRLF(line)))

\* a pass of the data loop that leaves ' nc ' and ' c ' in the line
SipDataStepUnreplaced(d, rawline) == SipSplit(d, rawline)

\* lines 338-379: the body of the data loop for one buffered line
SipDataStep(d, rawline) ==
    SipSplit(d, Replace(Replace(rawline, <<" ", "n", "c", " ">>, <<" ", "0", " ">>),
                        <<" ", "c", " ">>, <<" ", "1", " ">>))

\* line 383: pg.verbose formats rdno
SipVerbose(d) ==
    IF ~d.rdno.bound THEN [d EXCEPT !.exc = "UnboundLocalError"] ELSE d

\* an end of the loop that leaves the pending sweep dFreq out of DATA
SipFinishWithoutSweep(d) ==
    SipVerbose([d EXCEPT !.DATA = Append(@, d.dReading)])

\* lines 381-384: after the loop
SipFinish(d) ==
    SipVerbose([d EXCEPT !.DATA = Append(@, Append(d.dReading, d.dFreq)),
                         !.dReading = Append(d.dReading, d.dFreq)])

\* lines 289-333 on a whole file, from its i-th line on
RECURSIVE SipHeaderRun(_, _, _)
SipHeaderRun(st, lines, i) ==
    IF st.ret.kind # "none" \/ i > Len(lines) THEN st
    ELSE SipHeaderRun(SipHeaderStep(st, lines[i]), lines, i + 1)

\* lines 337-379 on the buffered lines, from the i-th on
RECURSIVE SipDataRun(_, _, _)
SipDataRun(d, buf, i) ==
    IF d.exc # "" \/ i > Len(buf) THEN d
    ELSE SipDataRun(SipDataStep(d, buf[i]), buf, i + 1)

\* what a call gives back: header, DATA, AB, RU (line 384) or an exception
SipRaised(e) ==
    [kind |-> "raise", exc |-> e, header |-> EmptyDict, DATA |-> <<>>,
     AB |-> <<>>, RU |-> <<>>]

SipReturned(hdr, d) ==
    IF d.exc # "" THEN SipRaised(d.exc)
    ELSE [kind |-> "return", exc |-> "", header |-> hdr, DATA |-> d.DATA,
          AB |-> d.AB, RU |-> d.RU]

\* lines 381-384 after the data loop gave d
SipAfterData(hdr, d) ==
    IF d.exc # "" THEN SipRaised(d.exc) ELSE SipReturned(hdr, SipFinish(d))

\* lines 335-384 after the header loop gave st
SipAfterHeader(st) ==
    IF st.ret.kind # "none" THEN SipRaised(st.ret.exc)
    ELSE SipAfterData(st.header, SipDataRun(SipStart, st.LINE, 1))

\* lines 257-384
readSIP256file(lines) == SipAfterHeader(SipHeaderRun(F3Start, lines, 1))

---------------------------------------------------------------------------
(* Inputs of the calls *)

\* the longest file body (the lines after the first) given to load
MaxBody == 3

\* the longest file body given to a reader that is called directly
MaxReaderBody == 3

SeqsUpTo(S, n) == UNION {[1..len -> S] : len \in 0..n}

NL == <<"\n">>

Sp == <<" ">>

\* "header\n"
LnHeader == <<"h", "e", "a", "d", "e", "r", "\n">>

\* "Current\n"
LnCurrent == <<"C", "u", "r", "r", "e", "n", "t", "\n">>

\* "0 0 0 0 0 0 0 0 0 2 0 1.5 4 30\n": k-factor 2, frequency 1.5, amplitude 4,
\* phase 30 at the fields 9, 11, 12, 13
LnTable ==
    <<"0", " ", "0", " ", "0", " ", "0", " ", "0", " ", "0", " ", "0", " ", "0",
      " ", "0", " ", "2", " ", "0", " ", "1", ".", "5", " ", "4", " ", "3", "0",
      "\n">>

\* "0 0 0 0 0 0 0 0 0 1 0 0.5 8 60\n": a later, lower frequency
LnTable2 ==
    <<"0", " ", "0", " ", "0", " ", "0", " ", "0", " ", "0", " ", "0", " ", "0",
      " ", "0", " ", "1", " ", "0", " ", "0", ".", "5", " ", "8", " ", "6", "0",
      "\n">>

\* "1.0 2.0 x 3.0\n"
LnTxt1 ==
    <<"1", ".", "0", " ", "2", ".", "0", " ", "x", " ", "3", ".", "0", "\n">>

\* "2.0 4.0 x -1.0\n"
LnTxt2 ==
    <<"2", ".", "0", " ", "4", ".", "0", " ", "x", " ", "-", "1", ".", "0", "\n">>

\* "3;6;x;9\n"
LnTxtSemi == <<"3", ";", "6", ";", "x", ";", "9", "\n">>

\* "Freq\n"
LnFreq == <<"F", "r", "e", "q", "\n">>

\* "1\t2\t30\t4\t5\n": a row of the SIP-Fuchs dialect with phase 30
LnRadicRow == <<"1", "\t", "2", "\t", "3", "0", "\t", "4", "\t", "5", "\n">>

LoadBodyLines ==
    {LnCurrent, LnTable, NL, LnTxt1, LnTxt2, LnTxtSemi, LnFreq, LnRadicRow}

ReaderBodyLines ==
    {LnCurrent, LnTable, LnTable2, NL, LnTxt1, LnTxt2, LnTxtSemi, LnFreq}

FirstLines ==
    { SigFuchs3 \o NL,
      SigQuad \o NL,
      SigFuchs \o NL,
      SigQuad \o Sp \o SigFuchs3 \o NL,
      SigFuchs \o Sp \o SigQuad \o NL,
      SigFuchs \o Sp \o <<"I", "I", "I">> \o NL,
      LnHeader }

FileNames ==
    { <<"a", ".", "T", "X", "T">>, <<"b", ".", "c", "s", "v">>,
      <<"c", ".", "r", "e", "s">>, <<"t", "x", "t">> }

NoKwargs ==
    [names |-> {}, verbose |-> FALSE, k |-> DefaultK, readSecond |-> FALSE,
     delLast |-> TRUE]

KwargSets ==
    { NoKwargs,
      [NoKwargs EXCEPT !.names = {"k"}, !.k = Fin(2, 0), !.verbose = TRUE],
      [NoKwargs EXCEPT !.names = {"readSecond"}, !.readSecond = TRUE] }

LoadFiles ==
    {<<fl>> \o body : fl \in FirstLines, body \in SeqsUpTo(LoadBodyLines, MaxBody)}

ReaderFiles == {<<LnHeader>> \o body : body \in SeqsUpTo(ReaderBodyLines, MaxReaderBody)}

---------------------------------------------------------------------------
(* The calls of load and of the single-spectrum readers: a call is one step *)
(* from its arguments to its result.                                        *)

locals == <<activeBlock, header, LINE, dataAct, DATA, dReading, dFreq, AB, RU,
            ru, rdno, accepted, readings>>

InitLocals ==
    /\ activeBlock = <<>>
    /\ header = EmptyDict
    /\ LINE = <<>>
    /\ dataAct = FALSE
    /\ DATA = <<>>
    /\ dReading = <<>>
    /\ dFreq = <<>>
    /\ AB = <<>>
    /\ RU = <<>>
    /\ ru = <<>>
    /\ rdno = Unbound
    /\ accepted = <<>>
    /\ readings = <<>>

\* no call was made before
NoCall == [entry |-> "", content |-> <<>>]

Init ==
    /\ entry = ""
    /\ pc = "idle"
    /\ fileName = <<>>
    /\ kwargs = NoKwargs
    /\ content = <<>>
    /\ result = NoResult
    /\ InitLocals
    /\ earlier = NoCall

CallLoad ==
    /\ pc = "idle"
    /\ \E name \in FileNames, lines \in LoadFiles, kw \in KwargSets :
         /\ fileName' = name
         /\ content' = lines
         /\ kwargs' = kw
         /\ result' = load(name, lines, kw)
    /\ entry' = "load"
    /\ pc' = "done"
    /\ UNCHANGED <<locals, earlier>>

CallReadTXTSpectrum ==
    /\ pc = "idle"
    /\ \E lines \in ReaderFiles :
         /\ content' = lines
         /\ result' = readTXTSpectrum(lines)
    /\ entry' = "readTXTSpectrum"
    /\ pc' = "done"
    /\ UNCHANGED <<fileName, kwargs, locals, earlier>>

CallReadFuchs3File ==
    /\ pc = "idle"
    /\ \E lines \in ReaderFiles, kw \in KwargSets :
         /\ kw.names \subseteq {"k"}
         /\ content' = lines
         /\ kwargs' = kw
         /\ result' = readFuchs3File(lines, kw.k)
    /\ entry' = "readFuchs3File"
    /\ pc' = "done"
    /\ UNCHANGED <<fileName, locals, earlier>>

CallReadRadicSIPFuchs ==
    /\ pc = "idle"
    /\ \E lines \in ReaderFiles, rs \in BOOLEAN, dl \in BOOLEAN :
         /\ content' = lines
         /\ kwargs' = [NoKwargs EXCEPT !.readSecond = rs, !.delLast = dl]
         /\ result' = readRadicSIPFuchs(lines, rs, dl)
    /\ entry' = "readRadicSIPFuchs"
    /\ pc' = "done"
    /\ UNCHANGED <<fileName, locals, earlier>>

Next == CallLoad

Spec == Init /\ [][Next]_vars

NextReaders ==
    \/ CallReadTXTSpectrum
    \/ CallReadFuchs3File
    \/ CallReadRadicSIPFuchs

SpecReaders == Init /\ [][NextReaders]_vars

---------------------------------------------------------------------------
(* The readers line by line: a step reads one line of the file.  The lines  *)
(* are chosen when they are read; content is the file read so far.          *)

\* the most lines read in the header section of a file
MaxHdrLines == 4

\* the most lines read in the data section of a SIP256 file
MaxDataLines == 4

\* the most lines read in the data section of a SIP256 file of one reading
MaxUnitLines == 6

\* the most lines read in a section of a file that is read twice
MaxRepeatLines == 3

\* the most lines read in a header of blocks
MaxBlockLines == 6

\* the most lines read in a header with indented lines
MaxIndentLines == 3

\* "[Begin A]\n"
LnBegin == <<"[", "B", "e", "g", "i", "n", " ", "A", "]", "\n">>

\* "[End A]\n"
LnEnd == <<"[", "E", "n", "d", " ", "A", "]", "\n">>

\* " [Begin A]\n"
LnIndBegin == <<" ", "[", "B", "e", "g", "i", "n", " ", "A", "]", "\n">>

\* "  [End A]\n"
LnIndEnd == <<" ", " ", "[", "E", "n", "d", " ", "A", "]", "\n">>

\* "\t[K] 12\n"
LnIndInt == <<"\t", "[", "K", "]", " ", "1", "2", "\n">>

\* "[Begin B]\n"
LnBeginB == <<"[", "B", "e", "g", "i", "n", " ", "B", "]", "\n">>

\* "[End B]\n"
LnEndB == <<"[", "E", "n", "d", " ", "B", "]", "\n">>

\* "[K] 12\n"
LnInt == <<"[", "K", "]", " ", "1", "2", "\n">>

\* "[K] 1.5\n"
LnFloat == <<"[", "K", "]", " ", "1", ".", "5", "\n">>

\* "[K] x.y\n"
LnBadFloat == <<"[", "K", "]", " ", "x", ".", "y", "\n">>

\* "[K] xy\n"
LnBadInt == <<"[", "K", "]", " ", "x", "y", "\n">>

\* "1 2\n"
LnNums == <<"1", " ", "2", "\n">>

\* "3 4\n"
LnNums2 == <<"3", " ", "4", "\n">>

\* "[Messdaten SIP256]\n"
LnMessdaten ==
    <<"[", "M", "e", "s", "s", "d", "a", "t", "e", "n", " ", "S", "I", "P",
      "2", "5", "6", "]", "\n">>

\* "Reading 1 x A 1 B 2\n"
LnReading1 ==
    <<"R", "e", "a", "d", "i", "n", "g", " ", "1", " ", "x", " ", "A", " ",
      "1", " ", "B", " ", "2", "\n">>

\* "Reading 2 x A 5 B 7\n"
LnReading2 ==
    <<"R", "e", "a", "d", "i", "n", "g", " ", "2", " ", "x", " ", "A", " ",
      "5", " ", "B", " ", "7", "\n">>

\* "Reading 0\n"
LnReading0 == <<"R", "e", "a", "d", "i", "n", "g", " ", "0", "\n">>

\* "Remote Unit 3\n"
LnUnit3 ==
    <<"R", "e", "m", "o", "t", "e", " ", "U", "n", "i", "t", " ", "3", "\n">>

\* "Remote Unit 4\n"
LnUnit4 ==
    <<"R", "e", "m", "o", "t", "e", " ", "U", "n", "i", "t", " ", "4", "\n">>

\* "Frequency /Hz\n"
LnFrequency ==
    <<"F", "r", "e", "q", "u", "e", "n", "c", "y", " ", "/", "H", "z", "\n">>

\* "1 2 3 4 5 nc 7 8 9 1:2:3 4/5/2019\n"
LnRowA ==
    <<"1", " ", "2", " ", "3", " ", "4", " ", "5", " ", "n", "c", " ", "7",
      " ", "8", " ", "9", " ", "1", ":", "2", ":", "3", " ", "4", "/", "5",
      "/", "2", "0", "1", "9", "\n">>

\* "2 2 3 4 5 c 7 8 9 1:2:3 4/5/2019\n"
LnRowB ==
    <<"2", " ", "2", " ", "3", " ", "4", " ", "5", " ", "c", " ", "7", " ",
      "8", " ", "9", " ", "1", ":", "2", ":", "3", " ", "4", "/", "5", "/",
      "2", "0", "1", "9", "\n">>

\* "1 2 nc 4 5 6\n"
LnRowShort ==
    <<"1", " ", "2", " ", "n", "c", " ", "4", " ", "5", " ", "6", "\n">>

\* "3 2-3 4 5 0 7 8 9 1:2:3 4/5/2019\n"
LnRowMinus ==
    <<"3", " ", "2", "-", "3", " ", "4", " ", "5", " ", "0", " ", "7", " ",
      "8", " ", "9", " ", "1", ":", "2", ":", "3", " ", "4", "/", "5", "/",
      "2", "0", "1", "9", "\n">>

\* "0000000000000004 0000020000000003 5 0 7 8 9 1:2:3 4/5/2019\n"
LnRowLong ==
    <<"0", "0", "0", "0", "0", "0", "0", "0", "0", "0", "0", "0", "0", "0",
      "0", "4", " ", "0", "0", "0", "0", "0", "2", "0", "0", "0", "0", "0",
      "0", "0", "0", "0", "3", " ", "5", " ", "0", " ", "7", " ", "8", " ",
      "9", " ", "1", ":", "2", ":", "3", " ", "4", "/", "5", "/", "2", "0",
      "1", "9", "\n">>

\* "5 00000000002 4 5 0 7 8 9 1:2:3 4/5/2019\n"
LnRowEleven ==
    <<"5", " ", "0", "0", "0", "0", "0", "0", "0", "0", "0", "0", "2", " ",
      "4", " ", "5", " ", "0", " ", "7", " ", "8", " ", "9", " ", "1", ":",
      "2", ":", "3", " ", "4", "/", "5", "/", "2", "0", "1", "9", "\n">>

\* "0 0 0 0 0 0 0 0 0 2 0 1.5 4\n": 13 fields, no field 13 for the phase
LnTable13 ==
    <<"0", " ", "0", " ", "0", " ", "0", " ", "0", " ", "0", " ", "0", " ",
      "0", " ", "0", " ", "2", " ", "0", " ", "1", ".", "5", " ", "4", "\n">>

\* "0 0 0 0 0 0 0 0 0 2 0 x 4 30\n": 14 fields, field 11 not a number
LnTableText ==
    <<"0", " ", "0", " ", "0", " ", "0", " ", "0", " ", "0", " ", "0", " ",
      "0", " ", "0", " ", "2", " ", "0", " ", "x", " ", "4", " ", "3", "0",
      "\n">>

ScalarLines == {LnInt, LnFloat, LnBadFloat, LnBadInt}

F3Lines ==
    ScalarLines \cup {LnBegin, LnEnd, LnNums, LnCurrent, NL, LnTable, LnTable13,
                      LnTableText}

SipHeaderLines == ScalarLines \cup {LnBegin, LnEnd, LnNums, LnMessdaten}

SipDataLines ==
    {LnReading1, LnReading2, LnReading0, LnUnit3, LnFrequency, LnRowA, LnRowB,
     LnRowShort, LnRowMinus, LnRowLong, LnRowEleven, NL}

\* the locals of the header loops (lines 107-110 and 280-283)
HdrLocals ==
    [activeBlock |-> activeBlock, header |-> header, LINE |-> LINE,
     dataAct |-> dataAct, ret |-> NoResult]

\* the locals of the data loop of readSIP256file (line 335)
SipLocals ==
    [DATA |-> DATA, dReading |-> dReading, dFreq |-> dFreq, AB |-> AB,
     RU |-> RU, ru |-> ru, rdno |-> rdno, exc |-> ""]

sipData == <<DATA, dReading, dFreq, AB, RU, ru, rdno, accepted, readings>>

\* the header locals after a step that gave st
SetHdr(st) ==
    /\ activeBlock' = st.activeBlock
    /\ header' = st.header
    /\ LINE' = st.LINE
    /\ dataAct' = st.dataAct

\* the data locals after a step that gave d
SetData(d) ==
    /\ DATA' = d.DATA
    /\ dReading' = d.dReading
    /\ dFreq' = d.dFreq
    /\ AB' = d.AB
    /\ RU' = d.RU
    /\ ru' = d.ru
    /\ rdno' = d.rdno

\* the call ends when the step returned or raised
EndWith(ret) ==
    /\ result' = ret
    /\ pc' = IF ret.kind = "none" THEN "lines" ELSE "done"

\* a call starts at the head of a file and has no result yet
Begin(name) ==
    /\ pc = "idle"
    /\ entry' = name
    /\ pc' = "lines"
    /\ content' = <<>>
    /\ result' = NoResult
    /\ UNCHANGED <<fileName, kwargs, earlier>>

\* lines 107-110 and 280-283: the header locals are new objects
FreshHdr == SetHdr(F3Start)

\* names that stay bound to what a call before left in them
StaleData == UNCHANGED sipData

\* lines 335-336: the lists of the data loop are new objects, rdno is not
\* yet bound
FreshData == SetData(SipStart) /\ accepted' = <<>> /\ readings' = <<>>

\* readFuchs3File(resfile): lines 107-110
F3Call ==
    /\ Begin("readFuchs3File")
    /\ FreshHdr
    /\ UNCHANGED sipData

F3Read(st, line) ==
    /\ content' = Append(content, line)
    /\ SetHdr(st)
    /\ EndWith(st.ret)

\* lines 111-164: one pass of the loop
F3ReadLine(pool) ==
    /\ pc = "lines"
    /\ entry = "readFuchs3File"
    /\ Len(content) < MaxHdrLines
    /\ \E line \in pool : F3Read(F3Step(HdrLocals, line, kwargs.k), line)
    /\ UNCHANGED <<entry, fileName, kwargs, sipData, earlier>>

\* the end of the file: the loop ends and the function returns None
F3EOF ==
    /\ pc = "lines"
    /\ entry = "readFuchs3File"
    /\ result' = ReturnNone
    /\ pc' = "done"
    /\ UNCHANGED <<entry, fileName, kwargs, content, locals, earlier>>

\* readSIP256file(resfile): lines 280-283 and, for the lists that the data
\* loop fills, lines 335-336
SipCall ==
    /\ Begin("readSIP256file")
    /\ FreshHdr
    /\ FreshData

SipReadHeader(st, line) ==
    /\ content' = Append(content, line)
    /\ SetHdr(st)
    /\ EndWith(st.ret)

\* lines 289-333: one pass of the header loop on a line before the data
SipHeaderLine(pool) ==
    /\ pc = "lines"
    /\ entry = "readSIP256file"
    /\ ~dataAct
    /\ Len(content) < MaxHdrLines
    /\ \E line \in pool : SipReadHeader(SipHeaderStep(HdrLocals, line), line)
    /\ UNCHANGED <<entry, fileName, kwargs, sipData, earlier>>

\* the rows taken into dFreq and the reading numbers read so far
SipObserve(d, line) ==
    /\ accepted' = IF Len(d.dFreq) > Len(dFreq)
                   THEN Append(accepted, d.dFreq[Len(d.dFreq)])
                   ELSE accepted
    /\ readings' = IF d.exc = "" /\ StartsWith(line, <<"R", "e", "a", "d">>)
                   THEN Append(readings, d.rdno.val)
                   ELSE readings

SipReadData(d, line) ==
    /\ content' = Append(content, line)
    /\ LINE' = Append(LINE, line)
    /\ SetData(d)
    /\ SipObserve(d, line)
    /\ EndWith(IF d.exc = "" THEN NoResult ELSE Raise(d.exc))

\* lines 290-291 and 337-379: a line after the Messdaten marker is buffered
\* by the header loop and gets one pass of the data loop
SipDataLine(pool) ==
    /\ pc = "lines"
    /\ entry = "readSIP256file"
    /\ dataAct
    /\ Len(LINE) < MaxDataLines
    /\ \E line \in pool : SipReadData(SipDataStep(SipLocals, line), line)
    /\ UNCHANGED <<entry, fileName, kwargs, activeBlock, header, dataAct,
                   earlier>>

SipEnd(d) ==
    /\ SetData(d)
    /\ result' = IF d.exc = "" THEN Return(<<>>, <<>>, <<>>, header)
                 ELSE Raise(d.exc)

\* lines 381-384: the end of the file
SipEOF ==
    /\ pc = "lines"
    /\ entry = "readSIP256file"
    /\ SipEnd(SipFinish(SipLocals))
    /\ pc' = "done"
    /\ UNCHANGED <<entry, fileName, kwargs, content, activeBlock, header, LINE,
                   dataAct, accepted, readings, earlier>>

\* the caller, back from a call, is about to make one more; the names of
\* the finished call keep their last values until a call binds them anew
CallAgain ==
    /\ pc = "done"
    /\ earlier = NoCall
    /\ earlier' = [entry |-> entry, content |-> content]
    /\ pc' = "idle"
    /\ UNCHANGED <<entry, fileName, kwargs, content, result, locals>>

NextHeader ==
    \/ F3Call
    \/ F3ReadLine(F3Lines)
    \/ F3EOF
    \/ SipCall
    \/ SipHeaderLine(SipHeaderLines)
    \/ SipEOF

SpecHeader == Init /\ [][NextHeader]_vars

NextSIP256 ==
    \/ SipCall
    \/ SipHeaderLine({LnMessdaten})
    \/ SipDataLine(SipDataLines)
    \/ SipEOF

SpecSIP256 == Init /\ [][NextSIP256]_vars

\* the lines of the files that are read twice
F3FewLines == {LnCurrent, LnTable, NL}

SipFewHeaderLines == {LnInt, LnMessdaten}

SipFewDataLines == {LnReading1, LnRowA}

\* lines 111-164: one pass of the loop, for a file that is read twice
F3ReadFew ==
    /\ pc = "lines"
    /\ entry = "readFuchs3File"
    /\ Len(content) < MaxRepeatLines
    /\ \E line \in F3FewLines : F3Read(F3Step(HdrLocals, line, kwargs.k), line)
    /\ UNCHANGED <<entry, fileName, kwargs, sipData, earlier>>

\* lines 289-333: one pass of the header loop, for a file that is read twice
SipHeaderFew ==
    /\ pc = "lines"
    /\ entry = "readSIP256file"
    /\ ~dataAct
    /\ Len(content) < MaxRepeatLines
    /\ \E line \in SipFewHeaderLines :
         SipReadHeader(SipHeaderStep(HdrLocals, line), line)
    /\ UNCHANGED <<entry, fileName, kwargs, sipData, earlier>>

\* lines 290-291 and 337-379, for a file that is read twice
SipDataFew ==
    /\ pc = "lines"
    /\ entry = "readSIP256file"
    /\ dataAct
    /\ Len(LINE) < MaxRepeatLines
    /\ \E line \in SipFewDataLines :
         SipReadData(SipDataStep(SipLocals, line), line)
    /\ UNCHANGED <<entry, fileName, kwargs, activeBlock, header, dataAct,
                   earlier>>

NextRepeat ==
    \/ F3Call
    \/ F3ReadFew
    \/ F3EOF
    \/ SipCall
    \/ SipHeaderFew
    \/ SipDataFew
    \/ SipEOF
    \/ CallAgain

SpecRepeat == Init /\ [][NextRepeat]_vars

\* the lines of the data section of a file of one reading with two remote
\* units
SipUnitLines == {LnReading1, LnUnit3, LnUnit4, LnRowA, LnRowB}

\* lines 290-291 and 337-379, for the longer data section of such a file
SipUnitLine(pool) ==
    /\ pc = "lines"
    /\ entry = "readSIP256file"
    /\ dataAct
    /\ Len(LINE) < MaxUnitLines
    /\ \E line \in pool : SipReadData(SipDataStep(SipLocals, line), line)
    /\ UNCHANGED <<entry, fileName, kwargs, activeBlock, header, dataAct,
                   earlier>>

NextUnits ==
    \/ SipCall
    \/ SipHeaderLine({LnMessdaten})
    \/ SipUnitLine(SipUnitLines)
    \/ SipEOF

SpecUnits == Init /\ [][NextUnits]_vars

\* the lines of a header of blocks
BlockLines == {LnBegin, LnBeginB, LnEnd, LnEndB, LnNums, LnNums2}

\* lines 111-164: one pass of the loop on one of at most max lines
F3ReadUpTo(pool, max) ==
    /\ pc = "lines"
    /\ entry = "readFuchs3File"
    /\ Len(content) < max
    /\ \E line \in pool : F3Read(F3Step(HdrLocals, line, kwargs.k), line)
    /\ UNCHANGED <<entry, fileName, kwargs, sipData, earlier>>

\* lines 289-333: one pass of the header loop on one of at most max lines
SipHeaderUpTo(pool, max) ==
    /\ pc = "lines"
    /\ entry = "readSIP256file"
    /\ ~dataAct
    /\ Len(content) < max
    /\ \E line \in pool : SipReadHeader(SipHeaderStep(HdrLocals, line), line)
    /\ UNCHANGED <<entry, fileName, kwargs, sipData, earlier>>

NextBlocks ==
    \/ F3Call
    \/ F3ReadUpTo(BlockLines, MaxBlockLines)
    \/ SipCall
    \/ SipHeaderUpTo(BlockLines, MaxBlockLines)

SpecBlocks == Init /\ [][NextBlocks]_vars

\* the lines of a header with indented lines
IndentLines == {LnBegin, LnNums, LnIndBegin, LnIndEnd, LnIndInt}

NextIndent ==
    \/ F3Call
    \/ F3ReadUpTo(IndentLines, MaxIndentLines)
    \/ SipCall
    \/ SipHeaderUpTo(IndentLines, MaxIndentLines)

SpecIndent == Init /\ [][NextIndent]_vars

---------------------------------------------------------------------------
(* Properties of load *)

LoadDone == entry = "load" /\ pc = "done"

\* the tests of load's chain, in the order of the chain, on the call's file
HasSignature(sig) == Contains(content[1], sig)

HasDataExtension ==
    EndsWith(Lower(fileName), ExtTxt) \/ EndsWith(Lower(fileName), ExtCsv)

NoSignature ==
    ~HasSignature(SigFuchs3) /\ ~HasSignature(SigQuad) /\ ~HasSignature(SigFuchs)

\* C1: load tries the signatures 'SIP Fuchs III', 'SIP-Quad', 'SIP-Fuchs' on
\* the first line and then the extension .txt/.csv on the lower-cased name,
\* in this order, and takes the first test that matches: when several match,
\* the branch taken and the reader called are those of the earliest one.
C1_FirstMatchWins ==
    LoadDone =>
      LET tests == <<HasSignature(SigFuchs3), HasSignature(SigQuad),
                     HasSignature(SigFuchs), HasDataExtension>>
          branches == <<"SIP Fuchs III", "SIP-Quad", "SIP-Fuchs", "txt">>
          readers == <<"readFuchs3File", "readFuchs3File",
                       "readRadicSIPFuchs", "readTXTSpectrum">>
      IN  \A i \in 1..4 :
            (tests[i] /\ \A j \in 1..(i - 1) : ~tests[j]) =>
              /\ result.branch = branches[i]
              /\ result.called \in {"", readers[i]}

\* a file named *.TXT whose first line holds the SIP-Quad and the
\* SIP Fuchs III signature goes to the SIP Fuchs III branch
C1_Witness ==
    /\ LoadDone
    /\ HasSignature(SigQuad) /\ HasSignature(SigFuchs3) /\ HasDataExtension
    /\ result.branch = "SIP Fuchs III"
    /\ result.called = "readFuchs3File"
    /\ result.kind = "return"

\* C2: when the first line holds none of the signatures and the lower-cased
\* name ends neither in .txt nor in .csv, load raises the Exception of its
\* last branch: it calls no reader and returns no arrays.
C2_UnknownFileRaises ==
    (LoadDone /\ NoSignature /\ ~HasDataExtension) =>
      /\ result.kind = "raise"
      /\ result.exc = "Exception"
      /\ result.called = ""
      /\ result.f = <<>> /\ result.amp = <<>> /\ result.phi = <<>>

\* the file named txt, without a dot, with the first line "header"
C2_Witness ==
    /\ LoadDone
    /\ fileName = <<"t", "x", "t">>
    /\ content[1] = LnHeader
    /\ Len(content) > 1
    /\ result.kind = "raise"

\* the column n of the lines after the first, as floats
TxtColumn(n) ==
    [i \in 1..(Len(content) - 1) |->
       ParseFloat(Field(TxtFields(content[i + 1]), n)).val]

\* C3: for a file named *.txt or *.csv without a signature, whose lines after
\* the first all have more than 3 fields (';' counts as white space), load
\* returns f, amp and phi as the columns 0 and 1 and the negated column 3.
C3_TxtFallbackReturnsColumns ==
    ( /\ LoadDone /\ NoSignature /\ HasDataExtension
      /\ Len(content) > 1
      /\ \A i \in 2..Len(content) : Len(TxtFields(content[i])) > 3 ) =>
      /\ result.kind = "return"
      /\ result.f = TxtColumn(0)
      /\ result.amp = TxtColumn(1)
      /\ result.phi = [i \in 1..(Len(content) - 1) |-> Neg(TxtColumn(3)[i])]

\* -deg * pi/180 for a whole number of degrees
Radians(deg) == [cls |-> "fin", m |-> 0 - deg, e |-> 0, rad |-> 1]

\* C4: on each dialect path the phase load returns is the phase of the
\* device, negated and converted to radians once, the conversions of the
\* reader and of load counted together: a file of the dialect with one row of
\* 30 degrees gives the one phase -30*pi/180.
C4_PhaseConvertedOnce ==
    (LoadDone /\ kwargs = NoKwargs) =>
      /\ ( /\ result.branch \in {"SIP Fuchs III", "SIP-Quad"}
           /\ Tail(content) = <<LnCurrent, LnTable, NL>> ) =>
           (result.kind = "return" /\ result.phi = <<Radians(30)>>)
      /\ ( /\ result.branch = "SIP-Fuchs"
           /\ Tail(content) = <<LnFreq, LnRadicRow, LnRadicRow>> ) =>
           /\ result.kind = "return"
           /\ result.phi = <<Radians(30)>>
           /\ TimesMinusPiOver180(RadicPhase(Fin(30, 0))) = Radians(30)

---------------------------------------------------------------------------
(* Properties of the single-spectrum readers *)

ReaderDone ==
    /\ entry \in {"readTXTSpectrum", "readFuchs3File", "readRadicSIPFuchs"}
    /\ pc = "done"

\* the lines of a Fuchs III file that give rows: those of the data section,
\* from the line after the first 'Current' up to the first line shorter than
\* 2 characters, that have more than 12 fields
F3RowLines ==
    LET cur == CHOOSE i \in 1..Len(content) :
                 /\ Contains(content[i], <<"C", "u", "r", "r", "e", "n", "t">>)
                 /\ \A j \in 1..(i - 1) :
                      ~Contains(content[j], <<"C", "u", "r", "r", "e", "n", "t">>)
        end == CHOOSE i \in (cur + 1)..Len(content) :
                 /\ Len(content[i]) < 2
                 /\ \A j \in (cur + 1)..(i - 1) : Len(content[j]) >= 2
    IN  SelectSeq(SubSeq(content, cur + 1, end), LAMBDA l : Len(Split(l)) > 12)

\* the lines of a text file that give rows: those after the first line, up
\* to the first one with fewer than 4 fields
TxtRowLines ==
    LET short == {i \in 2..Len(content) : Len(TxtFields(content[i])) < 4}
    IN  SubSeq(content, 2, MinOr(short \cup {Len(content) + 1}, 0) - 1)

C9_ShortLineEndsRead ==
    (entry = "readTXTSpectrum" /\ pc = "done" /\ result.kind = "return") =>
      /\ Len(result.f) = Len(TxtRowLines)
      /\ \A i \in 1..Len(result.f) :
           result.f[i] = ParseFloat(Field(TxtFields(content[i + 1]), 0)).val

\* a row, a line of one field, a row: one row is returned
C9_Witness ==
    /\ entry = "readTXTSpectrum" /\ pc = "done"
    /\ content = <<LnHeader, LnTxt1, LnCurrent, LnTxt2>>
    /\ result.kind = "return"
    /\ result.f = <<Fin(1, 0)>>

\* C9 as stated: a line with fewer than 4 fields is passed over and the rows
\* of all the lines with 4 fields or more are returned
C9_ShortLineSkipped ==
    (entry = "readTXTSpectrum" /\ pc = "done" /\ result.kind = "return") =>
      Len(result.f) =
           Cardinality({i \in 2..Len(content) : Len(TxtFields(content[i])) > 3})

---------------------------------------------------------------------------
(* Properties of readSIP256file *)

SipDone == entry = "readSIP256file" /\ pc = "done"

\* s[1] \o s[2] \o ...
RECURSIVE Flatten(_)
Flatten(s) == IF s = <<>> THEN <<>> ELSE Head(s) \o Flatten(Tail(s))

\* the rows of DATA: reading by reading, matrix by matrix, row by row
RowsOfDATA == Flatten([i \in 1..Len(DATA) |-> Flatten(DATA[i])])

\* C6: when readSIP256file returns, the rows of DATA are the rows that were
\* taken into the frequency accumulator, each one once and in the order of
\* the file; the sweep that is pending at the end of the file is among them.
C6_AcceptedRowsInDATA ==
    (SipDone /\ result.kind = "return") => RowsOfDATA = accepted

\* a file that ends in a row, after a row, a Remote Unit line and a row:
\* both rows are returned, in two matrices of the one reading
C6_Witness ==
    /\ SipDone
    /\ result.kind = "return"
    /\ LINE[Len(LINE)] \in {LnRowA, LnRowB}
    /\ Len(accepted) = 2
    /\ accepted[1] # accepted[2]
    /\ Len(DATA) = 1
    /\ Len(DATA[1]) = 2

IsReading(line) == StartsWith(line, <<"R", "e", "a", "d", "i", "n", "g">>)

IsRemoteUnit(line) ==
    StartsWith(line, <<"R", "e", "m", "o", "t", "e", " ", "U", "n", "i", "t">>)

IsRow(line) == line \in {LnRowA, LnRowB, LnRowMinus, LnRowLong}

\* a data section of readings numbered from 1, each a Reading line, a Remote
\* Unit line and one row or more
RegularLog ==
    /\ LINE # <<>>
    /\ IsReading(LINE[1])
    /\ IsRow(LINE[Len(LINE)])
    /\ readings = [i \in 1..Len(readings) |-> i]
    /\ \A i \in 1..(Len(LINE) - 1) :
         /\ IsReading(LINE[i]) => IsRemoteUnit(LINE[i + 1])
         /\ IsRemoteUnit(LINE[i]) => IsRow(LINE[i + 1])
         /\ IsRow(LINE[i]) => (IsRow(LINE[i + 1]) \/ IsReading(LINE[i + 1]))

\* C7: when readSIP256file returns, DATA, AB and RU have one entry for each
\* Reading line with a number above 0, the last reading included; stated for
\* the data sections in which every reading has its Remote Unit line and its
\* rows.
C7_OneEntryPerReading ==
    (SipDone /\ result.kind = "return" /\ RegularLog) =>
      /\ Len(DATA) = Len(readings)
      /\ Len(AB) = Len(readings)
      /\ Len(RU) = Len(readings)

\* C8: for the data section 'Reading 1 x A 1 B 2', 'Remote Unit 3',
\* 'Reading 2 x A 5 B 7' readSIP256file returns two electrode pairs, one for
\* each Reading line: (1,2) of reading 1 and then (5,7) of reading 2; and it
\* returns the one remote-unit list [3], of reading 1.
C8_PairPerReadingLine ==
    (SipDone /\ LINE = <<LnReading1, LnUnit3, LnReading2>>) =>
      /\ result.kind = "return"
      /\ readings = <<1, 2>>
      /\ AB = <<<<1, 2>>, <<5, 7>>>>
      /\ RU = <<<<3>>>>

C8_Witness ==
    /\ SipDone
    /\ LINE = <<LnReading1, LnUnit3, LnReading2>>
    /\ result.kind = "return"
    /\ Len(AB) = 2

\* C8 as stated: the one electrode pair (5,7) and the one list [3]
C8_OnePairOnly ==
    (SipDone /\ LINE = <<LnReading1, LnUnit3, LnReading2>>) =>
      /\ result.kind = "return"
      /\ AB = <<<<5, 7>>>>
      /\ RU = <<<<3>>>>

---------------------------------------------------------------------------
(* Properties of the header loops *)

\* the line that the step reads
LineRead == content'[Len(content')]

\* the step reads, in the header section, a bracketed entry that is neither
\* a Begin, an End nor a Messdaten marker and whose value is not a number:
\* not a float when it contains '.', not an int otherwise
ReadsBadEntry ==
    /\ pc = "lines"
    /\ ~dataAct
    /\ Len(content') = Len(content) + 1
    /\ LineRead \in ScalarLines
    /\ IF Contains(BracketValue(LineRead), <<".">>)
       THEN ~ParseFloat(BracketValue(LineRead)).ok
       ELSE ~ParseInt(BracketValue(LineRead)).ok

\* C10: a bracketed entry whose value is not a number never ends the read.
\* readFuchs3File passes over it and leaves the header as it is;
\* readSIP256file does so when the value contains a '.', and stores the token
\* with the value 0 when it contains none.
C10_BadEntry ==
    [][ ReadsBadEntry =>
          /\ pc' = "lines"
          /\ header' =
               IF /\ entry = "readSIP256file"
                  /\ ~Contains(BracketValue(LineRead), <<".">>)
               THEN Put(header, BracketToken(LineRead), HNum(PyInt(0)))
               ELSE header ]_vars

\* readSIP256file has read '[K] 12' and then '[K] xy': K is 0
C10_Witness ==
    /\ entry = "readSIP256file"
    /\ pc = "lines"
    /\ content = <<LnInt, LnBadInt>>
    /\ header = Put(EmptyDict, <<"K">>, HNum(PyInt(0)))

\* C10 as stated: both readers pass over the entry and leave the header as
\* it is
C10_BadEntrySkipped ==
    [][ ReadsBadEntry => (pc' = "lines" /\ header' = header) ]_vars

---------------------------------------------------------------------------
(* Properties of the data loop of readSIP256file *)

\* the data loop has just read a line of an active reading
InReading == entry = "readSIP256file" /\ LINE # <<>> /\ rdno.bound /\ rdno.val > 0

---------------------------------------------------------------------------
(* Properties of repeated calls *)

\* what the finished call of readSIP256file gave back
SipOutcome ==
    IF result.kind = "raise" THEN SipRaised(result.exc)
    ELSE [kind |-> result.kind, exc |-> "", header |-> result.header,
          DATA |-> DATA, AB |-> AB, RU |-> RU]

---------------------------------------------------------------------------
(* Properties of load on the SIP-Fuchs dialect *)

\* a file of the SIP-Fuchs dialect that has rows for the call's options: a
\* 'Freq' line and two rows, or, for readSecond, two 'Freq' lines and a row
HasRadicRows ==
    IF kwargs.readSecond THEN Tail(content) = <<LnFreq, LnFreq, LnRadicRow>>
    ELSE Tail(content) = <<LnFreq, LnRadicRow, LnRadicRow>>

\* C13: load on a file whose first line holds 'SIP-Fuchs' and no other
\* signature, without options or with the option readSecond, calls the
\* SIP-Fuchs reader and returns its arrays.
C13_FuchsOptionsAccepted ==
    ( /\ LoadDone
      /\ result.branch = "SIP-Fuchs"
      /\ kwargs.names \subseteq {"readSecond"}
      /\ HasRadicRows ) =>
      /\ result.kind = "return"
      /\ result.called = "readRadicSIPFuchs"

---------------------------------------------------------------------------
(* Properties of the reading boundaries of readSIP256file *)

\* the index in LINE of the last Reading line
LastReadingAt == MaxOr({i \in 1..Len(LINE) : IsReading(LINE[i])}, 0)

\* the number of rows after the last Reading line
RowsAfterLastReading ==
    Cardinality({i \in (LastReadingAt + 1)..Len(LINE) : IsRow(LINE[i])})

\* C14: a Reading line that is not the first one closes the reading before
\* it: in a data section of readings numbered 1, 2, ... the last entry of
\* DATA, which is that of the last reading, holds the rows that follow the
\* last Reading line and no row from before it.
C14_ReadingLineSeparates ==
    ( /\ SipDone /\ result.kind = "return"
      /\ IsReading(LINE[1])
      /\ Len(readings) > 1
      /\ readings = [i \in 1..Len(readings) |-> i] ) =>
      Len(Flatten(DATA[Len(DATA)])) = RowsAfterLastReading

---------------------------------------------------------------------------
(* Properties of the repair of a data row in readSIP256file *)

\* the last line read is line, inside a reading, and the loop goes on
RowRead(line) == InReading /\ LINE[Len(LINE)] = line /\ pc = "lines"

\* C15: the repair of a digit that runs into a '-' only puts a space between
\* the two: the row "3 2-3 4 5 0 7 8 9 1:2:3 4/5/2019" goes into the
\* frequency accumulator as 3, 2, -3, 4, 5, 0, 7, 8 and the time, the value
\* 2 before the '-' kept.
C15_DigitKept ==
    RowRead(LnRowMinus) =>
      /\ dFreq # <<>>
      /\ SubSeq(dFreq[Len(dFreq)], 1, 8)
           = <<Fin(3, 0), Fin(2, 0), Fin(0 - 3, 0), Fin(4, 0), Fin(5, 0),
               Fin(0, 0), Fin(7, 0), Fin(8, 0)>>

\* the first n values of the row last taken into the frequency accumulator
LastRow(n) == SubSeq(dFreq[Len(dFreq)], 1, n)

\* C16: each of the first six fields of a row is split in two when it is
\* longer than 15 characters, whatever its position; the second part is the
\* last 15 characters for field 0 and the last 10 for the fields 1 to 5, the
\* first part is the rest, and the later fields move up by one.  A field of
\* 16 characters gives two non-empty parts; a field of 11 characters in
\* position 1 is left whole.
C16_SplitOverFifteen ==
    /\ RowRead(LnRowLong) =>
         /\ dFreq # <<>>
         /\ LastRow(8) = <<Fin(0, 0), Fin(4, 0), Fin(2, 0), Fin(3, 0),
                           Fin(5, 0), Fin(0, 0), Fin(7, 0), Fin(8, 0)>>
    /\ (InReading /\ LINE[Len(LINE)] = LnRowEleven) =>
         (pc = "done" /\ result.kind = "raise" /\ result.exc = "IndexError")

\* a row with two fields of 16 characters has been split and taken, and the
\* row with a field of 11 characters has been read after it
C16_Witness ==
    /\ InReading /\ Len(LINE) > 1
    /\ LINE[Len(LINE) - 1] = LnRowLong
    /\ LINE[Len(LINE)] = LnRowEleven
    /\ dFreq # <<>>
    /\ LastRow(4) = <<Fin(0, 0), Fin(4, 0), Fin(2, 0), Fin(3, 0)>>
    /\ pc = "done"

\* C16 as claimed, a field in the positions 1 to 5 split when it is longer
\* than 10 characters: the row "5 00000000002 4 5 0 7 8 9 1:2:3 4/5/2019" is
\* taken as 5, 0, 2, 4, 5, 0, 7, 8 and the time.
C16_SplitOverTen ==
    (InReading /\ LINE[Len(LINE)] = LnRowEleven) =>
      /\ pc = "lines"
      /\ dFreq # <<>>
      /\ LastRow(8) = <<Fin(5, 0), Fin(0, 0), Fin(2, 0), Fin(4, 0), Fin(5, 0),
                        Fin(0, 0), Fin(7, 0), Fin(8, 0)>>

---------------------------------------------------------------------------
(* Properties of the table and of the end of the file in readFuchs3File *)

\* readFuchs3File has ended
F3Done == entry = "readFuchs3File" /\ pc = "done"

\* readFuchs3File has ended at a line shorter than 2 characters, read in the
\* data section
F3AtBoundary ==
    /\ F3Done /\ dataAct
    /\ LINE # <<>> /\ Len(LINE[Len(LINE)]) < 2

\* the buffered lines with 14 fields and more and a finite frequency
F3FullLines == {i \in 1..Len(LINE) : LINE[i] = LnTable}

\* C17: at the end of the data section readFuchs3File returns one row for
\* each buffered line that has the four columns, and drops every other
\* buffered line without a failure, a line of 13 fields and a line with the
\* text x as its frequency included.
C17_OtherLinesDropped ==
    F3AtBoundary =>
      /\ result.kind = "return"
      /\ Len(result.f) = Cardinality(F3FullLines)

\* readFuchs3File has come to the end of a file whose data section holds
\* table lines only, none of them shorter than 2 characters
F3TableToEOF ==
    /\ F3Done /\ dataAct
    /\ LINE # <<>>
    /\ \A i \in 1..Len(LINE) : LINE[i] = LnTable

\* C18: when the file ends in the data section, before any line shorter
\* than 2 characters, readFuchs3File returns the rows of the buffered table
\* lines together with the header, as it does at the end of the data section.
C18_EOFReturnsRows ==
    F3TableToEOF =>
      /\ result.kind = "return"
      /\ Len(result.f) = Len(LINE)
      /\ result.header = header

---------------------------------------------------------------------------
(* Properties of the lines outside a reading in readSIP256file *)

\* the lines of the data section that are no marker lines and have more than
\* one field
OtherLines ==
    {LnRowA, LnRowB, LnRowShort, LnRowMinus, LnRowLong, LnRowEleven}

\* the last line read is such a line, and no reading is active: there was
\* no Reading line yet, or the reading number is 0
OutsideReading ==
    /\ entry = "readSIP256file" /\ dataAct /\ LINE # <<>>
    /\ LINE[Len(LINE)] \in OtherLines
    /\ ~InReading

\* C19: a line with more than one field that is read before the first
\* Reading line, or while the reading number is 0, is ignored: the read goes
\* on to the end of the input without a failure.
C19_IgnoredOutsideReading ==
    OutsideReading => result.kind # "raise"

---------------------------------------------------------------------------
(* Properties of the Remote Unit lines of readSIP256file *)

\* the places in LINE of the Remote Unit lines
UnitPlaces == {i \in 1..Len(LINE) : IsRemoteUnit(LINE[i])}

\* the place of the i-th Remote Unit line
UnitAt(i) ==
    CHOOSE p \in UnitPlaces : Cardinality({q \in UnitPlaces : q <= p}) = i

\* the place of the last line before the Remote Unit line after the i-th one,
\* or of the last line read
UnitEnd(i) ==
    IF i < Cardinality(UnitPlaces) THEN UnitAt(i + 1) - 1 ELSE Len(LINE)

\* the number of rows among the first n lines
RowsUpTo(n) == Cardinality({j \in 1..n : IsRow(LINE[j])})

\* the rows read after the i-th Remote Unit line and before the next one
RowsOfUnit(i) ==
    [k \in 1..(RowsUpTo(UnitEnd(i)) - RowsUpTo(UnitAt(i))) |->
       accepted[RowsUpTo(UnitAt(i)) + k]]

\* the id on a Remote Unit line
UnitId(line) == IF line = LnUnit3 THEN 3 ELSE 4

\* a data section of one reading: a Reading line, then Remote Unit lines and
\* rows, each Remote Unit line followed by a row
OneReading ==
    /\ entry = "readSIP256file"
    /\ LINE # <<>>
    /\ LINE[1] = LnReading1
    /\ UnitPlaces # {}
    /\ \A i \in 2..Len(LINE) : IsRemoteUnit(LINE[i]) \/ IsRow(LINE[i])
    /\ \A i \in UnitPlaces : i < Len(LINE) /\ IsRow(LINE[i + 1])

---------------------------------------------------------------------------
(* Properties of the header blocks of readFuchs3File and readSIP256file *)

\* the step reads, in the header section and inside a block, a bracketed
\* entry that is neither a Begin, an End nor a Messdaten marker
ReadsEntryInBlock ==
    /\ pc = "lines"
    /\ ~dataAct
    /\ activeBlock # <<>>
    /\ Len(content') = Len(content) + 1
    /\ LineRead \in ScalarLines

\* C21: inside a block a bracketed entry that is neither a Begin nor an End
\* marker is ignored: the header gets no key, and the active block and its
\* rows stay as they are.
C21_EntryInBlockIgnored ==
    [][ ReadsEntryInBlock =>
          (header' = header /\ activeBlock' = activeBlock) ]_vars

\* the name A and the name B of a block
NameA == <<"A">>

NameB == <<"B">>

\* the header section read so far is lines
HeaderRead(lines) == pc # "idle" /\ ~dataAct /\ content = lines

\* C22: a block inside a block is read without a failure, and both names
\* get an entry in the header: after Begin A, Begin B, End B, End A, with or
\* without rows, the header has the keys A and B.
C22_NestedBlocksFlattened ==
    /\ HeaderRead(<<LnBegin, LnBeginB, LnEndB, LnEnd>>) =>
         (result.kind # "raise" /\ {NameA, NameB} \subseteq DOMAIN header)
    /\ HeaderRead(<<LnBegin, LnNums, LnBeginB, LnNums, LnEndB, LnEnd>>) =>
         (result.kind # "raise" /\ {NameA, NameB} \subseteq DOMAIN header)

\* the step reads, in the header section, a line with white space before
\* its opening bracket
ReadsIndented ==
    /\ pc = "lines"
    /\ ~dataAct
    /\ Len(content') = Len(content) + 1
    /\ LineRead \in {LnIndBegin, LnIndEnd, LnIndInt}

\* one pass of the header loop of the running reader on line
HeaderStepOf(line) ==
    IF entry = "readFuchs3File" THEN F3Step(HdrLocals, line, kwargs.k)
    ELSE SipHeaderStep(HdrLocals, line)

\* C23: a line with spaces or tabs before '[Begin X]', '[End X]' or
\* '[Key] value' is handled as the same line without them: the header, the
\* active block and the outcome of the step are those of the line that
\* starts with '['.
C23_IndentedMarker ==
    [][ ReadsIndented =>
          /\ header' = HeaderStepOf(LStrip(LineRead)).header
          /\ activeBlock' = HeaderStepOf(LStrip(LineRead)).activeBlock
          /\ result' = HeaderStepOf(LStrip(LineRead)).ret ]_vars

\* the Begin lines and the End lines of the headers
BeginLines == {LnBegin, LnBeginB}

EndLines == {LnEnd, LnEndB}

\* the block name on a Begin line
BlockName(line) == IF line = LnBegin THEN NameA ELSE NameB

\* the place in content of the last Begin line, 0 when there is none
LastBeginAt == MaxOr({i \in 1..Len(content) : content[i] \in BeginLines}, 0)

\* the header section read so far ends in a block that was opened a second
\* time: a Begin line of a name that had a Begin line before, then rows,
\* then an End line
BlockReopened ==
    /\ pc = "lines" /\ ~dataAct
    /\ LastBeginAt > 1
    /\ content[Len(content)] \in EndLines
    /\ \E j \in 1..(LastBeginAt - 1) : content[j] = content[LastBeginAt]
    /\ \A i \in (LastBeginAt + 1)..(Len(content) - 1) :
         content[i] \in {LnNums, LnNums2}

\* the rows of the lines between the last Begin line and the last line
RowsSinceBegin ==
    [i \in 1..(Len(content) - LastBeginAt - 1) |->
       Vals(ParseFloats(Split(content[LastBeginAt + i])))]

\* C24: a second Begin marker of a name empties the entry of that name:
\* after the End marker that follows, the entry is the array of the rows
\* read after the second Begin, without any row of the first block.
C24_SecondBeginOverwrites ==
    BlockReopened =>
      /\ BlockName(content[LastBeginAt]) \in DOMAIN header
      /\ header[BlockName(content[LastBeginAt])].t = "array"
      /\ header[BlockName(content[LastBeginAt])].rows = RowsSinceBegin

\* block A has been read with the row 1 2, closed, opened again, read with the
\* row 3 4 and closed
C24_Witness ==
    /\ BlockReopened
    /\ content = <<LnBegin, LnNums, LnEnd, LnBegin, LnNums2, LnEnd>>
    /\ header[NameA].rows = <<<<Fin(3, 0), Fin(4, 0)>>>>

---------------------------------------------------------------------------
(* Properties of the rows of readSIP256file *)

\* the time stamp of the rows of the data section: 1:2:3 on 4/5/2019
RowTime ==
    toTime(<<"1", ":", "2", ":", "3">>,
           <<"4", "/", "5", "/", "2", "0", "1", "9">>).val

\* C25: a row of DATA has 9 elements: the fields 0 to 7 of the repaired
\* line, in their order, and the time stamp of the fields 9 and 10; the
\* field 8 is left out.  So it is for every row taken into the frequency
\* accumulator and for every row of the DATA returned.
C25_RowOfNine ==
    /\ \A i \in 1..Len(accepted) :
         Len(accepted[i]) = 9 /\ accepted[i][9] = RowTime
    /\ (SipDone /\ result.kind = "return") =>
         \A i \in 1..Len(RowsOfDATA) :
           Len(RowsOfDATA[i]) = 9 /\ RowsOfDATA[i][9] = RowTime
    /\ RowRead(LnRowA) =>
         dFreq[Len(dFreq)]
           = <<Fin(1, 0), Fin(2, 0), Fin(3, 0), Fin(4, 0), Fin(5, 0),
               Fin(0, 0), Fin(7, 0), Fin(8, 0), RowTime>>
    /\ RowRead(LnRowLong) =>
         dFreq[Len(dFreq)]
           = <<Fin(0, 0), Fin(4, 0), Fin(2, 0), Fin(3, 0), Fin(5, 0),
               Fin(0, 0), Fin(7, 0), Fin(8, 0), RowTime>>

\* a file with a repaired row and another row has been returned
C25_Witness ==
    /\ SipDone /\ result.kind = "return"
    /\ Len(RowsOfDATA) > 1
    /\ \E i \in 1..Len(LINE) : LINE[i] = LnRowLong
    /\ \E i \in 1..Len(LINE) : LINE[i] = LnRowA

---------------------------------------------------------------------------
(* Termination of the readers *)

\* the lines of the file that contain 'Freq'
FreqLines ==
    {i \in 1..Len(content) : RFind(content[i], <<"F", "r", "e", "q">>) > -1}

====
